---- MODULE Spec2Model ----
(***************************************************************************)
(* Model of src/src/wpscan_tui/app.py: the run lifecycle of WPScanTUI      *)
(* (action_run_scan, action_stop_scan, _stream_output, _finish_scan) and   *)
(* its history store (add_history_entry, load_history, save_history,       *)
(* clear_history_storage).                                                 *)
(*                                                                         *)
(* The handlers run on one asyncio event loop.  A handler is atomic        *)
(* between two awaits; every await of the source is a step boundary here.  *)
(* The message handlers of the application (run, stop, clear) are          *)
(* dispatched one at a time by the application's message pump, the         *)
(* streaming task created at line 351 is scheduled independently.  An     *)
(* exception that leaves a handler ends the application: ctl = "crashed".  *)
(* A child is "alive" until the event loop has reaped it, which is when    *)
(* Process.returncode is set.                                              *)
(***************************************************************************)
EXTENDS Integers, Sequences, FiniteSets, TLC

\* ------------------------------------------------------------------ bounds
MaxRuns == 2          \* child processes spawned in one behaviour
MaxLines == 2         \* lines the children write in one behaviour
MaxNow == 1           \* clock ticks in one behaviour
TickSeconds == 250    \* wall-clock seconds per clock tick

\* --------------------------------------------------------- program values
None == <<>>
Some(x) == <<x>>
Val(o) == o[1]

HistoryCap == 50      \* self.history[:50]
RefSeconds == 240     \* min(elapsed, 240)
RunningCap == 95      \* min(95, ...)

Min(a, b) == IF a < b THEN a ELSE b
Max(a, b) == IF a > b THEN a ELSE b

RunIds == 1..MaxRuns

\* the stripped value of the #target input
Targets == {"", "https://example.com"}

\* The k-th line a child writes to its merged stream, as bytes: "X" is a
\* byte that is not valid UTF-8, " " is a blank at the end of the line (the
\* line terminator itself is not represented).  The lines of one stream are
\* pairwise different.
Letters == <<"a", "b", "c", "d", "e", "f">>
Line(k) == IF k % 2 = 1 THEN <<Letters[k], " ">> ELSE <<"X", Letters[k]>>

\* exit codes of the child: on its own, after SIGTERM, after SIGKILL
OwnExitCodes == {0, 1}
SigTerm == 15
SigKill == 9

SaveOutcomes == {"ok", "write_fail", "mkdir_fail"}

VARIABLES
  ctl,              \* position of the message pump: which handler is suspended
  waiting_on,       \* the process object whose wait() action_stop_scan awaits
  process,          \* self.process
  output_task,      \* self.output_task
  history,          \* self.history
  file,             \* contents of history_path()
  current_output,   \* self.current_output
  current_target,   \* self.current_target
  current_cmd,      \* self.current_cmd
  start_time,       \* self.start_time
  progress,         \* self.progress (percentage shown)
  progress_label,   \* self.progress_label
  status_chip,      \* self.status_chip
  status_label,     \* self.status_label
  run_btn_disabled, \* #run .disabled (#stop .disabled is its negation)
  log,              \* lines written to the RichLog by the run since log.clear()
  now,              \* datetime.now(), in ticks
  child,            \* the child processes, by spawn order
  task,             \* the _stream_output tasks, one per child
  spawned,          \* number of children spawned so far
  last_op,          \* the step taken last
  finish_calls,     \* per run: executions of _finish_scan
  appends           \* per run: executions of add_history_entry

vars == << ctl, waiting_on, process, output_task, history, file,
           current_output, current_target, current_cmd, start_time,
           progress, progress_label, status_chip, status_label,
           run_btn_disabled, log, now, child, task, spawned, last_op,
           finish_calls, appends >>

\* ------------------------------------------------------------ pure helpers
RECURSIVE DropInvalid(_)
\* bytes.decode(errors="ignore"): undecodable bytes are dropped
DropInvalid(bytes) ==
  IF bytes = <<>> THEN <<>>
  ELSE IF Head(bytes) = "X" THEN DropInvalid(Tail(bytes))
       ELSE <<Head(bytes)>> \o DropInvalid(Tail(bytes))

RECURSIVE RStrip(_)
\* str.rstrip(): trailing whitespace is removed
RStrip(s) ==
  IF s = <<>> THEN <<>>
  ELSE IF s[Len(s)] = " " THEN RStrip(SubSeq(s, 1, Len(s) - 1))
       ELSE s

\* a decoding that forgets rstrip()
DecodeKeep(line) == DropInvalid(line)

\* line.decode(errors="ignore").rstrip()
Decode(line) == RStrip(DropInvalid(line))

\* cmd = [wpscan_path, "--url", target] (the optional flags are fixed off)
BuildCmd(target) == <<"wpscan", "--url", target>>

\* f"$ {' '.join(cmd)}"
EchoLine(cmd) == <<"$">> \o cmd
\* f"[bold cyan]$ {' '.join(cmd)}[/bold cyan]"
EchoMarkup(cmd) == <<"[bold cyan]">> \o EchoLine(cmd) \o <<"[/bold cyan]">>

\* percent = max(0, min(100, percent))
Clamp(percent) == Max(0, Min(100, percent))

\* pct = min(95, int(min(elapsed, 240) / 240 * 95))
Pct(elapsed) == Min(RunningCap, (Min(elapsed, RefSeconds) * RunningCap) \div RefSeconds)

\* (datetime.now() - self.start_time).total_seconds()
Elapsed == (now - Val(start_time)) * TickSeconds

\* a truncation that is off by one
TruncateLate(h) == SubSeq(h, 1, Min(Len(h), HistoryCap + 1))

\* self.history[:50]
Truncate(h) == SubSeq(h, 1, Min(Len(h), HistoryCap))

\* a record that loses the exit code
EntryNoCode(target, command, exit_code, output) ==
  [ target |-> target, command |-> command, exit_code |-> None,
    output |-> output, timestamp |-> now ]

\* the entry built by add_history_entry (lines 489-495)
Entry(target, command, exit_code, output) ==
  [ target |-> target, command |-> command, exit_code |-> exit_code,
    output |-> output, timestamp |-> now ]

\* a record left in the history file by an earlier session
OldEntry(i) ==
  [ target |-> "https://old.example", command |-> BuildCmd("https://old.example"),
    exit_code |-> Some(0), output |-> << <<"$">> >>, timestamp |-> 0 - i ]

OldHistory(n) == [ i \in 1..n |-> OldEntry(i) ]

\* a serializer that writes a missing exit code as 0
JsonOptZero(o) == IF o = None THEN <<"int", 0>> ELSE <<"int", Val(o)>>

\* json.dumps / json.loads of an optional integer: None is null
JsonOpt(o) == IF o = None THEN <<"null">> ELSE <<"int", Val(o)>>
PyOpt(j) == IF j[1] = "null" THEN None ELSE Some(j[2])

\* json.dumps(self.history, indent=2)
Dumps(h) ==
  [ i \in 1..Len(h) |-> [ target |-> h[i].target, command |-> h[i].command,
                          exit_code |-> JsonOpt(h[i].exit_code),
                          output |-> h[i].output, timestamp |-> h[i].timestamp ] ]

\* json.loads(path.read_text()) of a document that is an array of records
Loads(d) ==
  [ i \in 1..Len(d) |-> [ target |-> d[i].target, command |-> d[i].command,
                          exit_code |-> PyOpt(d[i].exit_code),
                          output |-> d[i].output, timestamp |-> d[i].timestamp ] ]

\* the history file: absent, not JSON, JSON that is no array, or an array
FileOf(kind, data) == [ kind |-> kind, data |-> data ]
ListFile(h) == FileOf("list", Dumps(h))

\* contents the history file can have when the application starts: absent
\* (the exit handlers of the last session removed it), or left by a session
\* that ended without its exit handlers, or damaged
InitFiles == { FileOf("missing", <<>>) }

\* a JSON array whose item is not an object: json.loads gives [7]
BadList == << [ value |-> 7 ] >>

\* "unreadable": the file exists and read_text raises; "corrupt": no JSON;
\* "notlist": JSON that is no array; "badlist": an array of non-records
StoreFiles == { FileOf(k, <<>>) : k \in {"missing", "unreadable", "corrupt", "notlist"} }
                \cup { FileOf("badlist", BadList) }
                \cup { ListFile(OldHistory(n)) : n \in {1, HistoryCap - 1, HistoryCap} }

NewChild == [ state |-> "alive", returncode |-> None, written |-> 0,
              stdout_open |-> TRUE, term_sent |-> FALSE, kill_sent |-> FALSE ]

NoChild == [ state |-> "none", returncode |-> None, written |-> 0,
             stdout_open |-> FALSE, term_sent |-> FALSE, kill_sent |-> FALSE ]

Status(text, code, error) == [ text |-> text, code |-> code, error |-> error ]

\* ------------------------------------------------------------------- Init
\* the state after WPScanTUI.__init__ (lines 167-188) and compose
InitWith(files) ==
  /\ ctl = "init"
  /\ waiting_on = None
  /\ process = None
  /\ output_task = None
  /\ history = <<>>
  /\ file \in files
  /\ current_output = <<>>
  /\ current_target = ""
  /\ current_cmd = <<>>
  /\ start_time = None
  /\ progress = 0
  /\ progress_label = "0%"
  /\ status_chip = "Idle"
  /\ status_label = Status("Ready", None, FALSE)
  /\ run_btn_disabled = FALSE
  /\ log = <<>>
  /\ now = 0
  /\ child = [ i \in RunIds |-> NoChild ]
  /\ task = [ i \in RunIds |-> [ pc |-> "none", read_pos |-> 0 ] ]
  /\ spawned = 0
  /\ last_op = "init"
  /\ finish_calls = [ i \in RunIds |-> 0 ]
  /\ appends = [ i \in RunIds |-> 0 ]

Init == InitWith(InitFiles)
InitStore == InitWith(StoreFiles)

\* the application's event loop is running: no handler raised, the
\* application is not closing and the interpreter has not exited
LoopRuns == ctl \notin {"crashed", "closing", "exited"}

\* --------------------------------------------------------- history store
\* load_history (lines 524-533), called by on_mount
LoadFile(f, h) ==
  IF f.kind = "list" THEN Loads(f.data)
  ELSE IF f.kind = "badlist" THEN f.data
  ELSE IF f.kind \in {"corrupt", "unreadable"} THEN <<>>
  ELSE h

LoadedHistory == LoadFile(file, history)

\* refresh_history_list (lines 501-508) calls item.get on every item, after
\* the try block of load_history: an item that is no dict raises
RefreshRaises(h) == \E i \in 1..Len(h) : "target" \notin DOMAIN h[i]

\* on_mount (lines 248-249) awaits load_history
Mount ==
  /\ ctl = "init"
  /\ history' = LoadedHistory
  /\ ctl' = IF RefreshRaises(history') THEN "crashed" ELSE "idle"
  /\ last_op' = "mount"
  /\ UNCHANGED << waiting_on, process, output_task, file, current_output,
                  current_target, current_cmd, start_time, progress,
                  progress_label, status_chip, status_label, run_btn_disabled,
                  log, now, child, task, spawned, finish_calls, appends >>

\* self.history.insert(0, entry); self.history = self.history[:50]
Inserted(entry, h) == Truncate(<<entry>> \o h)

\* save_history (lines 535-541): mkdir is outside the try, write_text inside
SavedFile(h, outcome) == IF outcome = "ok" THEN ListFile(h) ELSE file
SaveRaises(outcome) == outcome = "mkdir_fail"

\* clear_history_storage (lines 543-555); unlink failures are swallowed
ClearHistory(unlink_ok) ==
  /\ ctl = "idle"
  /\ history' = <<>>
  /\ file' = IF unlink_ok THEN FileOf("missing", <<>>) ELSE file
  /\ last_op' = "clear"
  /\ UNCHANGED << ctl, waiting_on, process, output_task, current_output,
                  current_target, current_cmd, start_time, progress,
                  progress_label, status_chip, status_label, run_btn_disabled,
                  log, now, child, task, spawned, finish_calls, appends >>

\* add_history_entry (lines 488-499) called on its own: the record of a run
\* that ended with exit_code after n lines of output
RunOutput(n) == << EchoLine(BuildCmd("https://example.com")) >>
                  \o [ k \in 1..n |-> Decode(Line(k)) ]

AddHistoryEntry(run, exit_code, n, outcome) ==
  /\ ctl = "idle"
  /\ appends[run] = 0
  /\ \A r \in 1..(run - 1) : appends[r] = 1
  /\ history' = Inserted(Entry("https://example.com",
                                BuildCmd("https://example.com"), exit_code,
                                RunOutput(n)), history)
  /\ file' = SavedFile(history', outcome)
  /\ appends' = [ appends EXCEPT ![run] = 1 ]
  /\ ctl' = IF SaveRaises(outcome) THEN "crashed" ELSE "idle"
  /\ last_op' = "add_history_entry"
  /\ UNCHANGED << waiting_on, process, output_task, current_output,
                  current_target, current_cmd, start_time, progress,
                  progress_label, status_chip, status_label, run_btn_disabled,
                  log, now, child, task, spawned, finish_calls >>

\* ------------------------------------------------------------ _finish_scan
Finished(t) == t.pc \in {"done", "cancelled", "failed"}

\* a finalize that leaves the streaming task running
CancelTaskLost(t, cur) == t

\* a finalize that stops only a task that has seen the end of the stream
CancelTaskAtEof(t, cur) ==
  IF output_task # None /\ output_task # cur /\ t[Val(output_task)].pc = "waiting"
  THEN [ t EXCEPT ![Val(output_task)].pc = "cancelled" ]
  ELSE t

\* lines 384-386: cancel the streaming task unless it is the caller or done.
\* Task.cancel() makes the task raise CancelledError at the await where it
\* is suspended, so the task runs no further statement of _stream_output.
CancelTask(t, cur) ==
  IF output_task # None /\ output_task # cur /\ ~Finished(t[Val(output_task)])
  THEN [ t EXCEPT ![Val(output_task)].pc = "cancelled" ]
  ELSE t

\* line 396
IsFailure(exit_code) == exit_code # None /\ Val(exit_code) # 0

\* a finalize that leaves the chip of a successful run as it was
TerminalChipStuck(exit_code) == IF IsFailure(exit_code) THEN "failed" ELSE status_chip

\* lines 400 and 405: the status chip after the run
TerminalChip(exit_code) == IF IsFailure(exit_code) THEN "failed" ELSE "done"

\* line 395
FinalMessage(message) == IF message = None THEN "Scan finished." ELSE Val(message)

\* line 406
WillAppend == current_target # "" /\ current_output # <<>>

\* the exception of save_history's mkdir leaves _finish_scan at line 407
FinishRaises(outcome) == WillAppend /\ SaveRaises(outcome)

\* _finish_scan (lines 383-413), which has no await and so runs as one step.
\* cur is the calling task, run the run it ends, t the tasks and p0, l0 the
\* progress and its label as the caller left them.
FinishScan(message, exit_code, cur, run, outcome, t, p0, l0) ==
  /\ task' = CancelTask(t, cur)
  /\ output_task' = None
  /\ process' = None
  /\ run_btn_disabled' = FALSE
  /\ finish_calls' = [ finish_calls EXCEPT ![run] = @ + 1 ]
  /\ IF IsFailure(exit_code)
     THEN /\ status_label' = Status("Scan finished with exit code", exit_code, TRUE)
          /\ progress' = Clamp(100)
          /\ progress_label' = "Failed"
          /\ status_chip' = TerminalChip(exit_code)
     ELSE /\ status_label' = Status(FinalMessage(message), None, FALSE)
          /\ progress' = IF start_time # None THEN Clamp(100) ELSE p0
          /\ progress_label' = IF start_time # None THEN "Done" ELSE l0
          /\ status_chip' = TerminalChip(exit_code)
  /\ IF WillAppend
     THEN /\ history' = Inserted(Entry(current_target, current_cmd, exit_code,
                                       current_output), history)
          /\ file' = SavedFile(history', outcome)
          /\ appends' = [ appends EXCEPT ![run] = @ + 1 ]
     ELSE UNCHANGED << history, file, appends >>
  /\ start_time' = IF FinishRaises(outcome) THEN start_time ELSE None

\* --------------------------------------------------------- action_run_scan
\* a Start that does not look at the handle
RunActiveNever == FALSE

\* line 263
RunActive == process # None

\* action_run_scan up to its await (lines 262-339).  which_ok is the result
\* of shutil.which("wpscan").
RunScan(target, which_ok) ==
  /\ ctl = "idle"
  /\ IF RunActive
     THEN /\ last_op' = "run_rejected"
          /\ UNCHANGED << ctl, current_target, current_cmd, current_output,
                          start_time, progress, progress_label, status_chip,
                          status_label, run_btn_disabled, log >>
     ELSE IF target = "" \/ ~which_ok
     THEN /\ last_op' = IF target = "" THEN "run_no_target" ELSE "run_no_wpscan"
          /\ status_label' = Status(IF target = ""
                                    THEN "Enter a target URL before running."
                                    ELSE "wpscan not found in PATH. Install it first.",
                                    None, TRUE)
          /\ status_chip' = "error"
          /\ progress' = 0
          /\ progress_label' = "Idle"
          /\ UNCHANGED << ctl, current_target, current_cmd, current_output,
                          start_time, run_btn_disabled, log >>
     ELSE /\ spawned < MaxRuns
          /\ last_op' = "run_begin"
          /\ current_target' = target
          /\ current_cmd' = BuildCmd(target)
          /\ current_output' = << EchoLine(BuildCmd(target)) >>
          /\ start_time' = Some(now)
          /\ progress' = Clamp(0)
          /\ progress_label' = "Ready"
          /\ status_chip' = "running"
          /\ log' = << EchoMarkup(BuildCmd(target)) >>
          /\ status_label' = Status("Scan running", None, FALSE)
          /\ run_btn_disabled' = TRUE
          /\ ctl' = "spawning"
  /\ UNCHANGED << waiting_on, process, output_task, history, file, now, child,
                  task, spawned, finish_calls, appends >>

\* asyncio.create_subprocess_exec forks the child and then awaits the
\* connection of its pipes (line 339)
RunScanFork ==
  /\ ctl = "spawning"
  /\ spawned' = spawned + 1
  /\ child' = [ child EXCEPT ![spawned + 1] = NewChild ]
  /\ ctl' = "spawned"
  /\ last_op' = "run_fork"
  /\ UNCHANGED << waiting_on, process, output_task, history, file,
                  current_output, current_target, current_cmd, start_time,
                  progress, progress_label, status_chip, status_label,
                  run_btn_disabled, log, now, task, finish_calls, appends >>

\* lines 339 and 351: the handle is stored and the streaming task created
RunScanSpawned ==
  /\ ctl = "spawned"
  /\ process' = Some(spawned)
  /\ output_task' = Some(spawned)
  /\ task' = [ task EXCEPT ![spawned] = [ pc |-> "reading", read_pos |-> 0 ] ]
  /\ ctl' = "idle"
  /\ last_op' = "run_spawned"
  /\ UNCHANGED << waiting_on, history, file, current_output, current_target,
                  current_cmd, start_time, progress, progress_label,
                  status_chip, status_label, run_btn_disabled, log, now,
                  child, spawned, finish_calls, appends >>

\* lines 345-349: FileNotFoundError is caught.  Any other OSError
\* (PermissionError, exec format error, no more file descriptors) is not and
\* leaves the handler; the message pump ends the application on it.
RunScanFails(error) ==
  /\ ctl = "spawning"
  /\ IF error = "FileNotFoundError"
     THEN /\ status_label' = Status("wpscan executable not found.", None, TRUE)
          /\ status_chip' = "error"
          /\ run_btn_disabled' = FALSE
          /\ ctl' = "idle"
          /\ last_op' = "run_not_found"
     ELSE /\ ctl' = "crashed"
          /\ last_op' = "run_oserror"
          /\ UNCHANGED << status_label, status_chip, run_btn_disabled >>
  /\ UNCHANGED << waiting_on, process, output_task, history, file,
                  current_output, current_target, current_cmd, start_time,
                  progress, progress_label, log, now, child, task, spawned,
                  finish_calls, appends >>

\* -------------------------------------------------------- the child process
RECURSIVE TotalWritten(_, _)
TotalWritten(c, n) == IF n = 0 THEN 0 ELSE c[n].written + TotalWritten(c, n - 1)

\* exit codes with which a child can exit, given the signals sent to it
ExitCodes(c) ==
  IF c.kill_sent THEN {0 - SigKill}
  ELSE IF c.term_sent THEN OwnExitCodes \cup {0 - SigTerm}
  ELSE OwnExitCodes

\* the child writes its next line to its merged stdout/stderr (output that no
\* task reads any more is not followed)
ChildEmit(i) ==
  /\ LoopRuns
  /\ child[i].state = "alive"
  /\ child[i].stdout_open
  /\ ~Finished(task[i])
  /\ TotalWritten(child, MaxRuns) < MaxLines
  /\ child' = [ child EXCEPT ![i].written = @ + 1 ]
  /\ last_op' = "child_emit"
  /\ UNCHANGED << ctl, waiting_on, process, output_task, history, file,
                  current_output, current_target, current_cmd, start_time,
                  progress, progress_label, status_chip, status_label,
                  run_btn_disabled, log, now, task, spawned, finish_calls,
                  appends >>

\* the child closes its output before it exits
ChildClose(i) ==
  /\ LoopRuns
  /\ child[i].state = "alive"
  /\ child[i].stdout_open
  /\ ~Finished(task[i])
  /\ child' = [ child EXCEPT ![i].stdout_open = FALSE ]
  /\ last_op' = "child_close"
  /\ UNCHANGED << ctl, waiting_on, process, output_task, history, file,
                  current_output, current_target, current_cmd, start_time,
                  progress, progress_label, status_chip, status_label,
                  run_btn_disabled, log, now, task, spawned, finish_calls,
                  appends >>

\* the child exits and the event loop reaps it: Process.returncode is set
ChildExit(i, code) ==
  /\ LoopRuns
  /\ child[i].state = "alive"
  /\ code \in ExitCodes(child[i])
  /\ child' = [ child EXCEPT ![i].state = "exited",
                             ![i].returncode = Some(code),
                             ![i].stdout_open = FALSE ]
  /\ last_op' = "child_exit"
  /\ UNCHANGED << ctl, waiting_on, process, output_task, history, file,
                  current_output, current_target, current_cmd, start_time,
                  progress, progress_label, status_chip, status_label,
                  run_btn_disabled, log, now, task, spawned, finish_calls,
                  appends >>

\* ---------------------------------------------------------- _stream_output
\* lines 369-379: a line is read, written to the log and appended
StreamLine(i) ==
  /\ LoopRuns
  /\ task[i].pc = "reading"
  /\ task[i].read_pos < child[i].written
  /\ LET text == Decode(Line(task[i].read_pos + 1)) IN
       /\ log' = Append(log, text)
       /\ current_output' = Append(current_output, text)
  /\ task' = [ task EXCEPT ![i].read_pos = @ + 1 ]
  /\ IF start_time # None
     THEN /\ progress' = Clamp(Pct(Elapsed))
          /\ progress_label' = "Running"
          /\ status_chip' = "running"
     ELSE UNCHANGED << progress, progress_label, status_chip >>
  /\ last_op' = "stream_line"
  /\ UNCHANGED << ctl, waiting_on, process, output_task, history, file,
                  current_target, current_cmd, start_time, status_label,
                  run_btn_disabled, now, child, spawned, finish_calls,
                  appends >>

\* end of run as the streaming task sees it (lines 380-381)
StreamFinish(i, outcome) ==
  FinishScan(None, child[i].returncode, Some(i), i, outcome,
             [ task EXCEPT ![i].pc = IF FinishRaises(outcome) THEN "failed"
                                     ELSE "done" ],
             progress, progress_label)

\* lines 370-371 and 380: readline returns b"" at end of stream; wait()
\* returns at once when the child was reaped, else the task is suspended
StreamEOF(i, outcome) ==
  /\ LoopRuns
  /\ task[i].pc = "reading"
  /\ task[i].read_pos = child[i].written
  /\ ~child[i].stdout_open
  /\ IF child[i].returncode # None
     THEN /\ StreamFinish(i, outcome)
          /\ last_op' = "stream_finish"
     ELSE /\ task' = [ task EXCEPT ![i].pc = "waiting" ]
          /\ last_op' = "stream_eof"
          /\ UNCHANGED << process, output_task, history, file, start_time,
                          progress, progress_label, status_chip, status_label,
                          run_btn_disabled, finish_calls, appends >>
  /\ UNCHANGED << ctl, waiting_on, current_output, current_target,
                  current_cmd, log, now, child, spawned >>

\* line 380-381: process.wait() returns and the task finalizes
StreamExit(i, outcome) ==
  /\ LoopRuns
  /\ task[i].pc = "waiting"
  /\ child[i].returncode # None
  /\ StreamFinish(i, outcome)
  /\ last_op' = "stream_finish"
  /\ UNCHANGED << ctl, waiting_on, current_output, current_target,
                  current_cmd, log, now, child, spawned >>

\* --------------------------------------------------------- action_stop_scan
\* Process.terminate() raises ProcessLookupError once the child has exited
\* and the transport of its pipes is closed; while the transport is still
\* open the signal is just not sent to a child that has exited
TerminateCanRaise(c) == c.returncode # None /\ ~c.stdout_open

\* a Cancel that announces itself before it looks for a run
IdleStopStatusSet == Status("Stopping scan", None, FALSE)

\* lines 354-355: without a run the handler returns before set_status
IdleStopStatus == status_label

\* lines 353-359: up to the await of wait_for(self.process.wait(), 5).
\* lookup_error: terminate() raises, which leaves the handler.
StopScan(lookup_error) ==
  /\ ctl = "idle"
  /\ IF process = None
     THEN /\ ~lookup_error
          /\ last_op' = "stop_noop"
          /\ status_label' = IdleStopStatus
          /\ UNCHANGED << ctl, waiting_on, child >>
     ELSE IF lookup_error
     THEN /\ TerminateCanRaise(child[Val(process)])
          /\ status_label' = Status("Stopping scan", None, FALSE)
          /\ ctl' = "crashed"
          /\ last_op' = "stop_lookup_error"
          /\ UNCHANGED << waiting_on, child >>
     ELSE /\ status_label' = Status("Stopping scan", None, FALSE)
          /\ child' = [ child EXCEPT ![Val(process)].term_sent =
                          @ \/ child[Val(process)].state = "alive" ]
          /\ waiting_on' = process
          /\ ctl' = "stopping"
          /\ last_op' = "stop_begin"
  /\ UNCHANGED << process, output_task, history, file, current_output,
                  current_target, current_cmd, start_time, progress,
                  progress_label, status_chip, run_btn_disabled, log, now,
                  task, spawned, finish_calls, appends >>

\* where action_stop_scan returns to: the message loop, or on_exit (line 471)
AfterStop == IF ctl = "quit_stopping" THEN "quit_teardown" ELSE "idle"

\* lines 362-364.  The argument self.process.returncode is evaluated before
\* the call: when the streaming task has already cleared self.process it
\* raises AttributeError, which leaves the handler.
StopTail(outcome) ==
  IF process = None
  THEN /\ progress' = Clamp(0)
       /\ progress_label' = "Cancelled"
       /\ status_chip' = "cancelled"
       /\ ctl' = "crashed"
       /\ last_op' = "stop_attribute_error"
       /\ UNCHANGED << process, output_task, history, file, start_time,
                       status_label, run_btn_disabled, task, finish_calls,
                       appends >>
  ELSE /\ FinishScan(Some("Scan cancelled."), child[Val(process)].returncode,
                     None, Val(process), outcome, task, Clamp(0), "Cancelled")
       /\ ctl' = IF FinishRaises(outcome) THEN "crashed" ELSE AfterStop
       /\ last_op' = "stop_finish"

\* line 359 returns: the awaited child has exited within the grace period
StopScanResume(outcome) ==
  /\ ctl \in {"stopping", "quit_stopping"}
  /\ child[Val(waiting_on)].returncode # None
  /\ StopTail(outcome)
  /\ waiting_on' = None
  /\ UNCHANGED << current_output, current_target, current_cmd, log, now,
                  child, spawned >>

\* lines 360-361: the grace period ends first and the child is sent SIGKILL;
\* kill() returns without waiting for the child to exit
StopScanTimeout(outcome) ==
  /\ ctl \in {"stopping", "quit_stopping"}
  /\ child[Val(waiting_on)].returncode = None
  /\ process # None
  /\ child' = [ child EXCEPT ![Val(process)].kill_sent = TRUE ]
  /\ StopTail(outcome)
  /\ waiting_on' = None
  /\ UNCHANGED << current_output, current_target, current_cmd, log, now,
                  spawned >>

\* ------------------------------------------------------- quit and signals
\* a teardown that empties the list and leaves the file
TeardownMemoryOnly(unlink_ok) == history' = <<>> /\ file' = file

\* clear_history_storage (lines 543-555) as called while the application ends
Teardown(unlink_ok) ==
  /\ history' = <<>>
  /\ file' = IF unlink_ok THEN FileOf("missing", <<>>) ELSE file

\* on_exit (lines 468-471) up to its first suspension: with a run active it
\* awaits action_stop_scan (lines 353-359), else it clears the store
OnExit(lookup_error, unlink_ok) ==
  /\ ctl = "idle"
  /\ IF process = None
     THEN /\ ~lookup_error
          /\ Teardown(unlink_ok)
          /\ ctl' = "closing"
          /\ last_op' = "quit"
          /\ UNCHANGED << waiting_on, status_label, child >>
     ELSE /\ unlink_ok
          /\ status_label' = Status("Stopping scan", None, FALSE)
          /\ IF lookup_error
             THEN /\ TerminateCanRaise(child[Val(process)])
                  /\ ctl' = "crashed"
                  /\ last_op' = "quit_lookup_error"
                  /\ UNCHANGED << waiting_on, child >>
             ELSE /\ child' = [ child EXCEPT ![Val(process)].term_sent =
                                  @ \/ child[Val(process)].state = "alive" ]
                  /\ waiting_on' = process
                  /\ ctl' = "quit_stopping"
                  /\ last_op' = "quit_stop_begin"
          /\ UNCHANGED << history, file >>
  /\ UNCHANGED << process, output_task, current_output, current_target,
                  current_cmd, start_time, progress, progress_label,
                  status_chip, run_btn_disabled, log, now, task, spawned,
                  finish_calls, appends >>

\* on_exit, line 472: action_stop_scan has returned
OnExitTeardown(unlink_ok) ==
  /\ ctl = "quit_teardown"
  /\ Teardown(unlink_ok)
  /\ ctl' = "closing"
  /\ last_op' = "quit"
  /\ UNCHANGED << waiting_on, process, output_task, current_output,
                  current_target, current_cmd, start_time, progress,
                  progress_label, status_chip, status_label, run_btn_disabled,
                  log, now, child, task, spawned, finish_calls, appends >>

\* _handle_signal (lines 478-482), installed for SIGINT and SIGTERM at lines
\* 187-188: it runs in the main thread whatever the event loop is doing
HandleSignal(unlink_ok) ==
  /\ LoopRuns
  /\ child' = IF process # None /\ child[Val(process)].returncode = None
              THEN [ child EXCEPT ![Val(process)].term_sent = TRUE ]
              ELSE child
  /\ Teardown(unlink_ok)
  /\ ctl' = "closing"
  /\ last_op' = "signal"
  /\ UNCHANGED << waiting_on, process, output_task, current_output,
                  current_target, current_cmd, start_time, progress,
                  progress_label, status_chip, status_label, run_btn_disabled,
                  log, now, task, spawned, finish_calls, appends >>

\* the interpreter exits, after SystemExit, after the application closed or
\* after an unhandled exception ended it: the handler registered with atexit
\* at line 186 runs clear_history_storage
AtExit(unlink_ok) ==
  /\ ctl \in {"closing", "crashed"}
  /\ Teardown(unlink_ok)
  /\ ctl' = "exited"
  /\ last_op' = IF unlink_ok THEN "atexit" ELSE "atexit_unlink_failed"
  /\ UNCHANGED << waiting_on, process, output_task, current_output,
                  current_target, current_cmd, start_time, progress,
                  progress_label, status_chip, status_label, run_btn_disabled,
                  log, now, child, task, spawned, finish_calls, appends >>

\* ------------------------------------------------------------------- clock
\* time passes; the clock is followed while a run is being timed
Tick ==
  /\ LoopRuns
  /\ start_time # None
  /\ now < MaxNow
  /\ now' = now + 1
  /\ last_op' = "tick"
  /\ UNCHANGED << ctl, waiting_on, process, output_task, history, file,
                  current_output, current_target, current_cmd, start_time,
                  progress, progress_label, status_chip, status_label,
                  run_btn_disabled, log, child, task, spawned, finish_calls,
                  appends >>

Next ==
  \/ Mount
  \/ \E ok \in BOOLEAN : ClearHistory(ok)
  \/ \E t \in Targets, ok \in BOOLEAN : RunScan(t, ok)
  \/ RunScanFork
  \/ RunScanSpawned
  \/ \E e \in {"FileNotFoundError", "OSError"} : RunScanFails(e)
  \/ \E i \in RunIds : ChildEmit(i)
  \/ \E i \in RunIds : ChildClose(i)
  \/ \E i \in RunIds, c \in OwnExitCodes \cup {0 - SigTerm, 0 - SigKill} : ChildExit(i, c)
  \/ \E i \in RunIds : StreamLine(i)
  \/ \E i \in RunIds, o \in SaveOutcomes : StreamEOF(i, o)
  \/ \E i \in RunIds, o \in SaveOutcomes : StreamExit(i, o)
  \/ \E e \in BOOLEAN : StopScan(e)
  \/ \E o \in SaveOutcomes : StopScanResume(o)
  \/ \E o \in SaveOutcomes : StopScanTimeout(o)
  \/ Tick

Spec == Init /\ [][Next]_vars

\* the event loop runs every callback that is ready: a handler suspended in
\* wait_for (line 359) resumes once the child has been reaped, or when the
\* timer of the grace period fires, and the streaming task resumes once a
\* line, the end of the stream or the exit of the child is there
Fairness ==
  /\ WF_vars(\E o \in SaveOutcomes : StopScanResume(o))
  /\ WF_vars(\E o \in SaveOutcomes : StopScanTimeout(o))
  /\ WF_vars(\E i \in RunIds : StreamLine(i))
  /\ WF_vars(\E i \in RunIds, o \in SaveOutcomes : StreamEOF(i, o))
  /\ WF_vars(\E i \in RunIds, o \in SaveOutcomes : StreamExit(i, o))

SpecFair == Init /\ [][Next]_vars /\ Fairness

\* the application with the ways it ends: quit, signal, interpreter exit
NextExit ==
  \/ Next
  \/ \E e \in BOOLEAN, ok \in BOOLEAN : OnExit(e, ok)
  \/ \E ok \in BOOLEAN : OnExitTeardown(ok)
  \/ \E ok \in BOOLEAN : HandleSignal(ok)
  \/ \E ok \in BOOLEAN : AtExit(ok)

SpecExit == Init /\ [][NextExit]_vars

\* the history store on its own: load, append, clear
NextStore ==
  \/ Mount
  \/ \E ok \in BOOLEAN : ClearHistory(ok)
  \/ \E r \in RunIds, e \in {None, Some(0), Some(1)}, n \in 0..MaxLines,
        o \in SaveOutcomes : AddHistoryEntry(r, e, n, o)

SpecStore == InitStore /\ [][NextStore]_vars

\* ================================================================== claims
StartOps == {"run_rejected", "run_no_target", "run_no_wpscan", "run_begin"}
FinishOps == {"stream_finish", "stop_finish"}
Alive == { i \in RunIds : child[i].state = "alive" }
\* run i was given a handle and a streaming task
Started(i) == task[i].pc # "none"

\* C1: in every interleaving of Cancel with the streaming task, _finish_scan
\* runs exactly once for every started run whose handle has been cleared
\* (and not at all before), and each execution appends exactly one record.
C1_FinalizeOnce ==
  \A i \in RunIds :
    /\ appends[i] = finish_calls[i]
    /\ finish_calls[i] = IF Started(i) /\ process # Some(i) THEN 1 ELSE 0

\* Cancel finalized a run whose child had exited and whose streaming task
\* was about to finalize it too
C1_Witness ==
  \E i \in RunIds :
    /\ last_op = "stop_finish"
    /\ task[i].pc = "cancelled"
    /\ child[i].returncode # None
    /\ finish_calls[i] = 1
    /\ appends[i] = 1

\* C2: a Start invoked while the handle is set spawns nothing and leaves the
\* run session and the handle as they are.
C2_StartWhileActive ==
  [][ (process # None /\ last_op' \in StartOps)
        => UNCHANGED << process, output_task, current_target, current_cmd,
                        current_output, start_time, ctl, child, spawned,
                        task, log >> ]_vars

C2_Witness ==
  /\ last_op = "run_rejected"
  /\ process # None
  /\ ctl = "idle"
  /\ spawned = 1

\* C3: at most one child process is alive in every reachable state.
C3_AtMostOneAlive == Cardinality(Alive) <= 1

\* C4: a run ended by Cancel reports "Scan cancelled." and not the Failed
\* status, whatever the exit code, and its record is created.
C4_CancelReported ==
  last_op = "stop_finish"
    => /\ status_label.text = "Scan cancelled."
       /\ ~status_label.error
       /\ status_chip # "failed"
       /\ \E i \in RunIds : appends[i] = 1 /\ Started(i)

\* C5: _finish_scan never runs for a run whose child has not been seen to
\* exit.
C5_ExitBeforeFinalize ==
  \A i \in RunIds : finish_calls[i] > 0 => child[i].returncode # None

\* C6: every launch failure of Start leaves the controller idle with the
\* handle unset, reports an error status and adds no record.
LaunchFailures == {"run_no_wpscan", "run_not_found", "run_oserror"}

C6_LaunchFailure ==
  [][ last_op' \in LaunchFailures
        => /\ process' = None
           /\ ctl' = "idle"
           /\ status_label'.error
           /\ history' = history ]_vars

\* the decoded text of the k-th line of a stream: the undecodable byte and
\* the trailing whitespace are gone
Text(k) == << Letters[k] >>
ReadText(n) == [ k \in 1..n |-> Text(k) ]
ReadRaw(n) == [ k \in 1..n |-> Line(k) ]

\* C7 as stated: the lines given to the log and the lines of current_output
\* are the lines read so far from the stream.
C7_Original ==
  \A i \in RunIds :
    process = Some(i) =>
      /\ log = ReadRaw(task[i].read_pos)
      /\ current_output = ReadRaw(task[i].read_pos)

\* C7, amended: during a run the lines given to the log and the lines of
\* current_output are the echoed command line (with markup in the log)
\* followed by the decoded lines read so far, in their order, none dropped
\* or duplicated.
C7_LinesInOrder ==
  \A i \in RunIds :
    (process = Some(i) \/ (last_op \in FinishOps /\ i = spawned)) =>
      /\ log = << EchoMarkup(current_cmd) >> \o ReadText(task[i].read_pos)
      /\ current_output = << EchoLine(current_cmd) >> \o ReadText(task[i].read_pos)

C7_Witness ==
  \E i \in RunIds :
    /\ process = Some(i)
    /\ task[i].read_pos = 2
    /\ Len(log) = 3
    /\ Len(current_output) = 3

\* C8: while a run is active the progress never decreases and is at most 95;
\* finalize sets it to 100 and it stays 100 until the next Start.
C8_Progress ==
  [][ /\ (process # None /\ process' # None)
           => (progress' >= progress /\ progress' <= RunningCap)
      /\ finish_calls' # finish_calls => progress' = 100
      /\ (process = None /\ progress = 100 /\ last_op' \notin StartOps)
           => progress' = 100 ]_vars

C10_Append ==
  [][ /\ last_op' = "add_history_entry"
           => /\ Len(history') = Min(Len(history) + 1, HistoryCap)
              /\ history'[1].target = "https://example.com"
              /\ history'[1].timestamp = now
              /\ \A k \in 2..Len(history') : history'[k] = history[k - 1]
      /\ last_op' \in {"add_history_entry", "clear"}
           => Len(history') <= HistoryCap ]_vars

\* the store held 50 records and the append evicted the oldest
C10_Witness ==
  /\ last_op = "add_history_entry"
  /\ Len(history) = HistoryCap
  /\ history[1].target = "https://example.com"
  /\ history[HistoryCap] = OldEntry(HistoryCap - 1)


\* ---------------------------------------------------------------------
\* C11: whatever the history file holds that is not a valid array of run
\* records (absent, unreadable, unparsable, or parsable but malformed), Load
\* leaves the history empty and no error reaches the caller.
ValidFile == file.kind = "list"

C11_InvalidLoad ==
  (last_op = "mount" /\ ~ValidFile) => (history = <<>> /\ ctl = "idle")


\* ---------------------------------------------------------------------
\* C12: after an append whose write succeeded, loading what was persisted
\* gives the history held in memory after that append, and its first
\* element is the appended record.
WriteSucceeded == appends' # appends /\ file' # file

C12_RoundTrip ==
  [][ WriteSucceeded
        => /\ LoadFile(file', <<>>) = history'
           /\ LoadFile(file', <<>>)[1].target = "https://example.com"
           /\ LoadFile(file', <<>>)[1].timestamp = now
           /\ LoadFile(file', <<>>)[1].exit_code \in {None, Some(0), Some(1)} ]_vars

\* a record without exit code was appended to a loaded history and written
C12_Witness ==
  /\ last_op = "add_history_entry"
  /\ file = ListFile(history)
  /\ Len(history) >= 2
  /\ history[1].exit_code = None
  /\ history[2] = OldEntry(1)


\* ---------------------------------------------------------------------
\* C13: a failure to create the state directory or to write the file during
\* an append is swallowed: the append raises nothing, the new record is first
\* in the in-memory history, and the finalize that called it runs to its end
\* (its last statement clears start_time, line 413).
C13_SaveSwallowed ==
  [][ appends' # appends
        => /\ ctl' # "crashed"
           /\ \A i \in RunIds : task'[i].pc # "failed"
           /\ Len(history') >= 1 /\ history'[1].target = current_target
           /\ start_time' = None ]_vars


\* ---------------------------------------------------------------------
\* C14: when SIGINT or SIGTERM is delivered while a child is alive, at any
\* point after its spawn, the child has been asked to terminate and the
\* store has been torn down when the handler ends the process.
Asked(i) == child[i].term_sent \/ child[i].kill_sent

C14_SignalTerminates ==
  last_op = "signal"
    => /\ \A i \in RunIds : child[i].state = "alive" => Asked(i)
       /\ history = <<>>


StreamFinalized(i) ==
  last_op' = "stream_finish" /\ finish_calls'[i] # finish_calls[i]

\* C16, as stated: when the child has exited with code c after writing the
\* lines L, the finalize of the streaming task puts first in the history a
\* record with exit code c, the target of the run, and as output the echoed
\* command line followed by L.
C16_Original ==
  [][ \A i \in RunIds :
        StreamFinalized(i)
          => /\ history'[1].exit_code = child[i].returncode
             /\ history'[1].target = "https://example.com"
             /\ history'[1].output
                  = << EchoLine(BuildCmd("https://example.com")) >>
                      \o ReadRaw(child[i].written) ]_vars

\* C16: when the child has exited with code c after writing the lines L,
\* the finalize of the streaming task puts first in the history a record
\* with exit code c, the target of the run, and as output the echoed command
\* line followed by the lines of L, each decoded with undecodable bytes
\* dropped and trailing whitespace stripped, in their order.
C16_NaturalExit ==
  [][ \A i \in RunIds :
        StreamFinalized(i)
          => /\ child[i].returncode # None
             /\ history'[1].exit_code = child[i].returncode
             /\ history'[1].target = "https://example.com"
             /\ history'[1].output
                  = << EchoLine(BuildCmd("https://example.com")) >>
                      \o ReadText(child[i].written)
             /\ Len(history') = Len(history) + 1 ]_vars

\* a child that was never signalled wrote two lines and exited with code 1
C16_Witness ==
  /\ last_op = "stream_finish"
  /\ ~child[1].term_sent /\ ~child[1].kill_sent
  /\ child[1].written = 2
  /\ child[1].returncode = Some(1)
  /\ Len(history) = 1
  /\ history[1].exit_code = Some(1)
  /\ Len(history[1].output) = 3


\* ---------------------------------------------------------------------
\* C17: when Cancel has finalized a run, after the graceful wait or after
\* the forced kill, the exit code in the run's record is the code with which
\* the terminated child exited.
C17_CancelExitCode ==
  last_op = "stop_finish"
    => /\ history[1].exit_code # None
       /\ history[1].exit_code = child[spawned].returncode


\* ---------------------------------------------------------------------
\* C18: Cancel without an active run changes nothing (handle, session,
\* progress, history, file) and writes nothing to the log, the status, the
\* progress bar or the chip.
StopOps == {"stop_noop", "stop_begin", "stop_lookup_error"}

C18_CancelNoop ==
  [][ (process = None /\ last_op' \in StopOps)
        => /\ last_op' = "stop_noop"
           /\ UNCHANGED << ctl, waiting_on, process, output_task, history,
                           file, current_output, current_target, current_cmd,
                           start_time, progress, progress_label, status_chip,
                           status_label, run_btn_disabled, log, now, child,
                           task, spawned, finish_calls, appends >> ]_vars

\* Cancel was pressed after a run had been finalized: nothing is active
C18_Witness ==
  /\ last_op = "stop_noop"
  /\ process = None
  /\ finish_calls[1] = 1
  /\ status_label.text # "Stopping scan"


\* ---------------------------------------------------------------------
\* run i was finalized, and not by its own streaming task: by Cancel
CancelFinalized(i) ==
  finish_calls[i] >= 1 /\ task[i].pc \notin {"done", "failed"}

\* C19: once Cancel has finalized run i, the streaming task of run i takes
\* no further step: it reads and forwards no line, appends nothing to
\* current_output and calls no finalize, also while a later run is active.
C19_TaskStopped ==
  [][ \A i \in RunIds :
        CancelFinalized(i)
          => /\ task'[i] = task[i]
             /\ finish_calls'[i] = finish_calls[i]
             /\ appends'[i] = appends[i] ]_vars

\* run 1 was cancelled with a line still unread, and run 2 is streaming
C19_Witness ==
  /\ process = Some(2)
  /\ task[2].pc = "reading"
  /\ task[1].pc = "cancelled"
  /\ finish_calls[1] = 1
  /\ task[1].read_pos < child[1].written


\* ---------------------------------------------------------------------
\* C20: when the streaming task has finalized the run while Cancel was
\* waiting for the child, Cancel returns without raising and leaves the
\* controller idle, the handle unset and the Run button enabled.
C20_CancelRace ==
  [][ (ctl = "stopping" /\ process = None /\ ctl' # "stopping")
        => /\ ctl' = "idle"
           /\ process' = None
           /\ ~run_btn_disabled' ]_vars


\* ---------------------------------------------------------------------
\* C21: under fair scheduling, whenever Cancel has been accepted on an
\* active run (the handler waits for the child at line 359), the run is
\* eventually finalized and the controller is idle again with the handle
\* unset and the Run button enabled, also when the child ignores SIGTERM
\* for the whole grace period.
CancelAccepted == ctl = "stopping"

BackToIdle ==
  /\ ctl = "idle"
  /\ process = None
  /\ ~run_btn_disabled
  /\ \A i \in RunIds : Started(i) => finish_calls[i] = 1

C21_CancelTerminates == CancelAccepted ~> BackToIdle

====
